---- MODULE Spec2Model ----
(***************************************************************************)
(* A model of the PDF-to-Markdown converter: the per-line classifiers      *)
(* (text.py, headings.py, lists.py, urls.py), the per-page extractors      *)
(* (tables.py, images.py, annotations.py), the Page Reconstruction Engine  *)
(* (engine.py, _process_page) and the Document Assembler (engine.py,       *)
(* pdf_to_markdown).                                                       *)
(*                                                                         *)
(* Text is a sequence of one-character strings.  Font sizes and            *)
(* coordinates are integers; an average is kept as the exact fraction      *)
(* [num, den], and a ratio is compared with a threshold by                 *)
(* cross-multiplication.                                                   *)
(***************************************************************************)
EXTENDS Integers, Sequences, FiniteSets, TLC

VARIABLES
    pc,        \* position of the call under study: "input", "done"
    page,      \* the page handed to _process_page (built by the environment)
    args,      \* the arguments of the call under study
    elements,  \* _process_page's local list `elements`, after the sort
    result,    \* the value the call returned
    raised,    \* the exception that reached the caller, or "none"
    files      \* the files written under the image output directory

vars == <<pc, page, args, elements, result, raised, files>>

(***************************************************************************)
(* Characters and strings                                                  *)
(***************************************************************************)
Digits == {"0", "1", "2", "3", "4", "5", "6", "7", "8", "9"}

Letters ==
    {"a", "b", "c", "d", "e", "f", "g", "h", "i", "j", "k", "l", "m",
     "n", "o", "p", "q", "r", "s", "t", "u", "v", "w", "x", "y", "z",
     "A", "B", "C", "D", "E", "F", "G", "H", "I", "J", "K", "L", "M",
     "N", "O", "P", "Q", "R", "S", "T", "U", "V", "W", "X", "Y", "Z"}

\* the characters Python's \s matches that the model uses
Spaces == {" ", "\t"}

IsSpace(c) == c \in Spaces

IsDigit(c) == c \in Digits

\* s[i..j] (1-based, inclusive); empty when j < i
Slice(s, i, j) == SubSeq(s, i, j)

\* the first index >= i of s that holds no whitespace (Len(s)+1 when none)
RECURSIVE SkipSpaces(_, _)
SkipSpaces(s, i) ==
    IF i <= Len(s) /\ IsSpace(s[i]) THEN SkipSpaces(s, i + 1) ELSE i

\* the first index >= i of s that holds no digit
RECURSIVE SkipDigits(_, _)
SkipDigits(s, i) ==
    IF i <= Len(s) /\ IsDigit(s[i]) THEN SkipDigits(s, i + 1) ELSE i

\* str.rstrip()
RECURSIVE RStrip(_)
RStrip(s) ==
    IF s # <<>> /\ IsSpace(s[Len(s)]) THEN RStrip(Slice(s, 1, Len(s) - 1)) ELSE s

\* str.strip()
Strip(s) ==
    LET r == RStrip(s) IN Slice(r, SkipSpaces(r, 1), Len(r))

\* whether s holds p at index i
StartsWithAt(s, p, i) ==
    /\ i + Len(p) - 1 <= Len(s)
    /\ \A k \in 1..Len(p) : s[i + k - 1] = p[k]

\* " ".join(parts) and the like
RECURSIVE Join(_, _)
Join(sep, parts) ==
    IF parts = <<>> THEN <<>>
    ELSE IF Len(parts) = 1 THEN parts[1]
    ELSE parts[1] \o sep \o Join(sep, Tail(parts))

\* str(n) for n >= 0
RECURSIVE IntToStr(_)
IntToStr(n) ==
    LET d == <<"0", "1", "2", "3", "4", "5", "6", "7", "8", "9">>
    IN  IF n < 10 THEN <<d[n + 1]>> ELSE IntToStr(n \div 10) \o <<d[(n % 10) + 1]>>

(***************************************************************************)
(* text.py: TextFormatter                                                  *)
(***************************************************************************)
FLAG_BOLD == 16

FLAG_ITALIC == 2

\* flags & FLAG_BOLD
is_bold(flags) == (flags \div FLAG_BOLD) % 2 = 1

\* flags & FLAG_ITALIC
is_italic(flags) == (flags \div FLAG_ITALIC) % 2 = 1

apply_formatting(span) ==
    LET text == RStrip(span.text)
        bold == is_bold(span.flags)
        italic == is_italic(span.flags)
    IN  IF text = <<>> THEN <<>>
        ELSE IF bold /\ italic THEN <<"*", "*", "*">> \o text \o <<"*", "*", "*">>
        ELSE IF bold THEN <<"*", "*">> \o text \o <<"*", "*">>
        ELSE IF italic THEN <<"*">> \o text \o <<"*">>
        ELSE text

\* the loop of format_line over spans[i..], carrying (parts, max_size, line_bold)
RECURSIVE FormatLineFrom(_, _, _, _, _)
FormatLineFrom(spans, i, parts, max_size, line_bold) ==
    IF i > Len(spans)
    THEN [text |-> Join(<<" ">>, parts), max_size |-> max_size, bold |-> line_bold]
    ELSE LET formatted == apply_formatting(spans[i])
         IN  FormatLineFrom(
                 spans, i + 1,
                 IF formatted # <<>> THEN Append(parts, formatted) ELSE parts,
                 IF spans[i].size > max_size THEN spans[i].size ELSE max_size,
                 line_bold \/ is_bold(spans[i].flags))

format_line(spans) == FormatLineFrom(spans, 1, <<>>, 0, FALSE)

(***************************************************************************)
(* headings.py: HeadingDetector                                            *)
(***************************************************************************)
\* a heading prefix, as text
H1 == <<"#", " ">>

H2 == <<"#", "#", " ">>

H3 == <<"#", "#", "#", " ">>

NoPrefix == <<>>

\* detect_heading with every >= read as >
detect_heading_strict(font_size, avg_size, is_b) ==
    IF avg_size.num <= 0 THEN NoPrefix
    ELSE IF 100 * font_size * avg_size.den > 180 * avg_size.num THEN H1
    ELSE IF 100 * font_size * avg_size.den > 135 * avg_size.num THEN H2
    ELSE IF 100 * font_size * avg_size.den > 115 * avg_size.num /\ is_b THEN H3
    ELSE NoPrefix

\* avg_size is the fraction [num, den] with den > 0; ratio >= 1.8 is
\* font_size / (num / den) >= 180 / 100, cross-multiplied
detect_heading(font_size, avg_size, is_b) ==
    IF avg_size.num <= 0 THEN NoPrefix
    ELSE IF 100 * font_size * avg_size.den >= 180 * avg_size.num THEN H1
    ELSE IF 100 * font_size * avg_size.den >= 135 * avg_size.num THEN H2
    ELSE IF 100 * font_size * avg_size.den >= 115 * avg_size.num /\ is_b THEN H3
    ELSE NoPrefix

(***************************************************************************)
(* lists.py: ListDetector                                                  *)
(***************************************************************************)
\* the glyphs of _BULLET_RE's class; the non-ASCII ones by code point
BulletGlyphs ==
    {"U+2022", "U+25CF", "U+25CB", "U+25E6", "U+25AA", "U+25B8", "U+2023",
     "U+2043", "-", "*", "+"}

\* _BULLET_RE.match(text): the index of the last matched character, 0 for no match
BulletMatchEnd(text) ==
    LET i == SkipSpaces(text, 1)
    IN  IF /\ i + 1 <= Len(text)
           /\ text[i] \in BulletGlyphs
           /\ IsSpace(text[i + 1])
        THEN SkipSpaces(text, i + 1) - 1
        ELSE 0

\* _NUMBERED_RE.match(text): the index of the last matched character, 0 for no match
NumberedMatchEnd(text) ==
    LET i == SkipSpaces(text, 1)
        j == SkipDigits(text, i)
    IN  IF /\ j > i
           /\ j + 1 <= Len(text)
           /\ text[j] \in {".", ")"}
           /\ IsSpace(text[j + 1])
        THEN SkipSpaces(text, j + 1) - 1
        ELSE IF /\ i + 2 <= Len(text)
                /\ text[i] \in Letters
                /\ text[i + 1] \in {".", ")"}
                /\ IsSpace(text[i + 2])
        THEN SkipSpaces(text, i + 2) - 1
        ELSE 0

is_bullet_item(text) == BulletMatchEnd(text) # 0

is_numbered_item(text) == NumberedMatchEnd(text) # 0

\* a bullet rewrite that puts "- " in front of the line, marker kept
normalize_bullet_prepend(text) == <<"-", " ">> \o text

normalize_bullet(text) ==
    LET e == BulletMatchEnd(text)
    IN  IF e = 0 THEN text ELSE <<"-", " ">> \o Slice(text, e + 1, Len(text))

\* re.sub(r"(\d+)\)", r"\1.", prefix)
SubDigitsParen(prefix) ==
    [k \in 1..Len(prefix) |->
        IF k > 1 /\ prefix[k] = ")" /\ IsDigit(prefix[k - 1]) THEN "." ELSE prefix[k]]

normalize_numbered(text) ==
    LET e == NumberedMatchEnd(text)
    IN  IF e = 0 THEN text
        ELSE SubDigitsParen(Strip(Slice(text, 1, e)))
                 \o <<" ">> \o Slice(text, e + 1, Len(text))

process_line(text) ==
    IF is_bullet_item(text) THEN normalize_bullet(text)
    ELSE IF is_numbered_item(text) THEN normalize_numbered(text)
    ELSE text

(***************************************************************************)
(* urls.py: URLExtractor                                                   *)
(***************************************************************************)
\* [^\s\)\]\>]
\* a character class that lets "]" into a URL
IsUrlCharOrBracket(c) == ~IsSpace(c) /\ c \notin {")", ">"}

\* [^\s\)\]\>]
IsUrlChar(c) == ~IsSpace(c) /\ c \notin {")", "]", ">"}

\* the first index >= i of s that holds no URL character
RECURSIVE SkipUrlChars(_, _)
SkipUrlChars(s, i) ==
    IF i <= Len(s) /\ IsUrlChar(s[i]) THEN SkipUrlChars(s, i + 1) ELSE i

\* _URL_RE matched at index i of s: the index of the last matched character, 0 for none
UrlMatchEnd(s, i) ==
    LET http == <<"h", "t", "t", "p", ":", "/", "/">>
        https == <<"h", "t", "t", "p", "s", ":", "/", "/">>
        b == IF StartsWithAt(s, https, i) THEN i + 8
             ELSE IF StartsWithAt(s, http, i) THEN i + 7
             ELSE 0
    IN  IF b = 0 THEN 0
        ELSE IF SkipUrlChars(s, b) > b THEN SkipUrlChars(s, b) - 1
        ELSE 0

\* _URL_RE.findall(text[i..])
RECURSIVE FindUrlsFrom(_, _)
FindUrlsFrom(text, i) ==
    IF i > Len(text) THEN <<>>
    ELSE LET e == UrlMatchEnd(text, i)
         IN  IF e = 0 THEN FindUrlsFrom(text, i + 1)
             ELSE <<Slice(text, i, e)>> \o FindUrlsFrom(text, e + 1)

find_visible_urls(text) == FindUrlsFrom(text, 1)

markdown_url(text, url) == <<"[">> \o text \o <<"]", "(">> \o url \o <<")">>

\* _URL_RE.sub(_repl, text[i..])
RECURSIVE ReplaceUrlsFrom(_, _)
ReplaceUrlsFrom(text, i) ==
    IF i > Len(text) THEN <<>>
    ELSE LET e == UrlMatchEnd(text, i)
         IN  IF e = 0 THEN <<text[i]>> \o ReplaceUrlsFrom(text, i + 1)
             ELSE markdown_url(Slice(text, i, e), Slice(text, i, e))
                      \o ReplaceUrlsFrom(text, e + 1)

replace_urls_in_text(text) == ReplaceUrlsFrom(text, 1)

(***************************************************************************)
(* Geometry: the rectangles of the PDF library, as the engine uses them    *)
(***************************************************************************)
\* fitz.Rect(): the rectangle a missing key defaults to; bool() of it is False
ZeroRect == [x0 |-> 0, y0 |-> 0, x1 |-> 0, y1 |-> 0]

\* bool(rect): false only when all four coordinates are 0
RectTruthy(r) == r # ZeroRect

RectIsEmpty(r) == r.x0 >= r.x1 \/ r.y0 >= r.y1

Max(a, b) == IF a >= b THEN a ELSE b

Min(a, b) == IF a <= b THEN a ELSE b

\* rect.width, rect.height
RectWidth(r) == Max(r.x1 - r.x0, 0)

RectHeight(r) == Max(r.y1 - r.y0, 0)

\* block_rect.intersects(tr): the two share a non-empty rectangle
Intersects(a, b) ==
    /\ ~RectIsEmpty(a)
    /\ ~RectIsEmpty(b)
    /\ Max(a.x0, b.x0) < Min(a.x1, b.x1)
    /\ Max(a.y0, b.y0) < Min(a.y1, b.y1)

(***************************************************************************)
(* tables.py: TableExtractor                                               *)
(***************************************************************************)
\* a cell the table finder left empty (None)
NoCell == <<"None">>

\* cell.split(): the maximal runs of non-whitespace of cell[i..]
RECURSIVE SplitFrom(_, _, _)
SplitFrom(cell, i, word) ==
    IF i > Len(cell) THEN (IF word = <<>> THEN <<>> ELSE <<word>>)
    ELSE IF IsSpace(cell[i]) \/ cell[i] = "\n"
    THEN (IF word = <<>> THEN <<>> ELSE <<word>>) \o SplitFrom(cell, i + 1, <<>>)
    ELSE SplitFrom(cell, i + 1, Append(word, cell[i]))

_clean_cell(cell) ==
    IF cell = NoCell \/ cell = <<>> THEN <<>>
    ELSE Join(<<" ">>, SplitFrom(cell, 1, <<>>))

\* the length of the first row in the place of the widest
HeaderRowLen(rows) == Len(rows[1])

\* max(len(row) for row in table_data)
RECURSIVE MaxRowLen(_)
MaxRowLen(rows) ==
    IF rows = <<>> THEN 0 ELSE Max(Len(rows[1]), MaxRowLen(Tail(rows)))

\* row + [""] * (col_count - len(row))
PadRow(row, col_count) ==
    [k \in 1..col_count |-> IF k <= Len(row) THEN row[k] ELSE <<>>]

\* "| " + " | ".join(cells) + " |"
PipeRow(cells) == <<"|", " ">> \o Join(<<" ", "|", " ">>, cells) \o <<" ", "|">>

\* the lines _to_markdown joins with "\n"
ToMarkdownLines(table_data) ==
    IF table_data = <<>> \/ table_data[1] = <<>> THEN <<>>
    ELSE LET col_count == MaxRowLen(table_data)
             normalised == [r \in 1..Len(table_data) |-> PadRow(table_data[r], col_count)]
             sep == [k \in 1..col_count |-> <<"-", "-", "-">>]
             clean(row) == [k \in 1..col_count |-> _clean_cell(row[k])]
         IN  <<PipeRow(clean(normalised[1])), PipeRow(sep)>>
                 \o [r \in 1..(Len(normalised) - 1) |-> PipeRow(clean(normalised[r + 1]))]

_to_markdown(table_data) == Join(<<"\n">>, ToMarkdownLines(table_data))

\* one pass of extract_all's loop body on tab; `src` records the table's place in
\* find_tables()' answer (a history field, read by no operation)
TableResult(tab, i) ==
    LET md == _to_markdown(tab.data)
        bbox == IF tab.has_bbox THEN tab.bbox ELSE ZeroRect
        has == tab.has_bbox /\ RectTruthy(tab.bbox)
    IN  IF md # <<>>
        THEN <<[md |-> md, y_pos |-> IF has THEN bbox.y0 ELSE 0,
                has_bbox |-> has, bbox |-> bbox, src |-> i]>>
        ELSE <<>>

\* the loop `for tab in tabs` inside the try: an exception ends the whole loop
RECURSIVE ExtractTablesFrom(_, _)
ExtractTablesFrom(tabs, i) ==
    IF i > Len(tabs) THEN <<>>
    ELSE IF tabs[i].raises THEN <<>>
    ELSE TableResult(tabs[i], i) \o ExtractTablesFrom(tabs, i + 1)

TableExtractor_extract_all(p) ==
    IF p.find_tables_raises THEN <<>> ELSE ExtractTablesFrom(p.tables, 1)

(***************************************************************************)
(* images.py: ImageExtractor                                               *)
(***************************************************************************)
\* a file name without the "_img" between the two numbers
ImageFileNameNoSep(page_num, img_index, ext) ==
    <<"p", "a", "g", "e">> \o IntToStr(page_num + 1)
        \o IntToStr(img_index) \o <<".">> \o ext

\* the name extract_all gives the file of image img_index of page page_num:
\* f"page{page_num + 1}_img{img_index}.{ext}"
ImageFileName(page_num, img_index, ext) ==
    <<"p", "a", "g", "e">> \o IntToStr(page_num + 1)
        \o <<"_", "i", "m", "g">> \o IntToStr(img_index) \o <<".">> \o ext

ExtOf(img) == IF img.alpha THEN <<"p", "n", "g">> ELSE <<"j", "p", "g">>

MimeOf(img) == IF img.alpha THEN "image/png" ELSE "image/jpeg"

\* the bytes of the image after tobytes() and _resize_bytes(), which either
\* downsamples or hands the bytes back: kept as a token of the image and its format
ImageBytes(img) == <<"bytes", img.xref, MimeOf(img)>>

\* f"data:{mime};base64,{b64}"
DataUri(img) == <<"data:", MimeOf(img), ";base64,", <<"b64">> \o ImageBytes(img)>>

\* os.path.join(output_dir, fname)
PathJoin(dir, fname) == <<dir, fname>>

\* f"![Image page {page_num + 1}]({data_uri})"
ImageMdRef(page_num, img) ==
    <<"![Image page ">> \o IntToStr(page_num + 1) \o <<"](">> \o DataUri(img) \o <<")">>

\* a Markdown reference to the written file instead of the data URI
ImageMdPathRef(page_num, img_index, img) ==
    <<"![Image page ">> \o IntToStr(page_num + 1) \o <<"](">>
        \o <<"images/">> \o ImageFileName(page_num, img_index, ExtOf(img)) \o <<")">>

\* open(img_path, "wb").write(img_bytes): the directory after the write
\* a write that leaves the file system as it was
SkipWrite(fs, path, bytes) == fs

\* filepath.write_bytes(img_bytes)
WriteFile(fs, path, bytes) ==
    [q \in (DOMAIN fs) \cup {path} |-> IF q = path THEN bytes ELSE fs[q]]

\* the loop of extract_all over page.get_images()[i..] (img_index = i - 1), carrying
\* the results and the directory; a failing image is skipped alone
RECURSIVE ExtractImagesFrom(_, _, _, _, _, _)
ExtractImagesFrom(imgs, i, page_num, output_dir, results, fs) ==
    IF i > Len(imgs) THEN [results |-> results, files |-> fs]
    ELSE IF imgs[i].raises
    THEN ExtractImagesFrom(imgs, i + 1, page_num, output_dir, results, fs)
    ELSE LET img == imgs[i]
             fs2 == IF output_dir # "None"
                    THEN WriteFile(fs,
                             PathJoin(output_dir, ImageFileName(page_num, i - 1, ExtOf(img))),
                             ImageBytes(img))
                    ELSE fs
             y_pos == IF img.rects_raise \/ img.rects = <<>> THEN 0 ELSE img.rects[1].y0
         IN  ExtractImagesFrom(imgs, i + 1, page_num, output_dir,
                 Append(results, [md |-> ImageMdRef(page_num, img), y_pos |-> y_pos, src |-> i]),
                 fs2)

ImageExtractor_extract_all(p, page_num, output_dir, fs) ==
    ExtractImagesFrom(p.images, 1, page_num, output_dir, <<>>, fs)

(***************************************************************************)
(* annotations.py: AnnotationExtractor                                     *)
(***************************************************************************)
\* _TYPE_LABELS, keyed by the annotation sub-type
TypeLabel(subtype) ==
    CASE subtype = "Text" -> "Note"
      [] subtype = "FreeText" -> "Note"
      [] subtype = "Highlight" -> "Highlight"
      [] subtype = "Underline" -> "Underline"
      [] subtype = "StrikeOut" -> "Strikeout"
      [] subtype = "Stamp" -> "Stamp"
      [] OTHER -> "None"

\* a loop body that falls back to the text under the rectangle for every
\* sub-type
AnnotResultAnyFallback(annot, i) ==
    IF annot.raises \/ TypeLabel(annot.subtype) = "None" THEN <<>>
    ELSE IF Strip(annot.content) = <<>> /\ (annot.textbox_raises \/ Strip(annot.textbox) = <<>>)
    THEN <<>>
    ELSE <<[md |-> <<">", " ", TypeLabel(annot.subtype), ":", " ">>
                       \o (IF Strip(annot.content) # <<>> THEN Strip(annot.content)
                           ELSE Strip(annot.textbox)),
            y_pos |-> annot.rect.y0, src |-> i]>>

\* one pass of extract_all's loop body on annot (the try is inside the loop)
AnnotResult(annot, i) ==
    IF annot.raises THEN <<>>
    ELSE LET label == TypeLabel(annot.subtype)
             own == Strip(annot.content)
             content == IF own # <<>> THEN own
                        ELSE IF annot.subtype = "Highlight" /\ ~annot.textbox_raises
                        THEN Strip(annot.textbox)
                        ELSE <<>>
         IN  IF label = "None" \/ content = <<>> THEN <<>>
             ELSE <<[md |-> <<">", " ", label, ":", " ">> \o content,
                     y_pos |-> annot.rect.y0, src |-> i]>>

RECURSIVE ExtractAnnotsFrom(_, _)
ExtractAnnotsFrom(annots, i) ==
    IF i > Len(annots) THEN <<>>
    ELSE AnnotResult(annots[i], i) \o ExtractAnnotsFrom(annots, i + 1)

AnnotationExtractor_extract_all(p) == ExtractAnnotsFrom(p.annots, 1)

(***************************************************************************)
(* urls.py: URLExtractor.extract_hyperlinks                                *)
(***************************************************************************)
LinkResult(link, i) ==
    IF link.uri = <<>> THEN <<>>
    ELSE LET rect == link.from
             shown == IF RectTruthy(rect) THEN Strip(link.textbox) ELSE link.uri
             display == IF shown = <<>> THEN link.uri ELSE shown
         IN  <<[display |-> display, url |-> link.uri,
                y_pos |-> IF RectTruthy(rect) THEN rect.y0 ELSE 0, src |-> i]>>

RECURSIVE ExtractLinksFrom(_, _)
ExtractLinksFrom(links, i) ==
    IF i > Len(links) THEN <<>>
    ELSE LinkResult(links[i], i) \o ExtractLinksFrom(links, i + 1)

extract_hyperlinks(p) == ExtractLinksFrom(p.links, 1)

(***************************************************************************)
(* engine.py: _compute_avg_font_size and _process_page                     *)
(***************************************************************************)
\* the sizes of all spans of the text blocks (type 0) of the page, in order
RECURSIVE LineSizes(_)
LineSizes(spans) ==
    IF spans = <<>> THEN <<>> ELSE <<spans[1].size>> \o LineSizes(Tail(spans))

RECURSIVE BlockSizes(_)
BlockSizes(lines) ==
    IF lines = <<>> THEN <<>> ELSE LineSizes(lines[1].spans) \o BlockSizes(Tail(lines))

RECURSIVE PageSizes(_)
PageSizes(blocks) ==
    IF blocks = <<>> THEN <<>>
    ELSE (IF blocks[1].type # 0 THEN <<>> ELSE BlockSizes(blocks[1].lines))
             \o PageSizes(Tail(blocks))

RECURSIVE Sum(_)
Sum(xs) == IF xs = <<>> THEN 0 ELSE xs[1] + Sum(Tail(xs))

\* sum(sizes) / len(sizes) if sizes else 12.0, as a fraction
_compute_avg_font_size(p) ==
    LET sizes == PageSizes(p.blocks)
    IN  IF sizes = <<>> THEN [num |-> 12, den |-> 1]
        ELSE [num |-> Sum(sizes), den |-> Len(sizes)]

\* the body of `for line in block.get("lines")` for one line: zero or one text
\* Element; `src` is <<block index, line index>>
\* a line pipeline that runs the List Normalizer on heading lines as well
FormattedLineElementListed(fl, avg_font_size, block_y, bi, li) ==
    IF Strip(fl.text) = <<>> THEN <<>>
    ELSE <<[y |-> block_y, kind |-> "text",
            content |-> detect_heading(fl.max_size, avg_font_size, fl.bold)
                            \o replace_urls_in_text(process_line(fl.text)),
            src |-> <<bi, li>>]>>

\* the Element of a line once format_line has returned fl for its spans
FormattedLineElement(fl, avg_font_size, block_y, bi, li) ==
    LET heading_prefix == detect_heading(fl.max_size, avg_font_size, fl.bold)
        listed == IF heading_prefix = NoPrefix THEN process_line(fl.text) ELSE fl.text
        linked == replace_urls_in_text(listed)
    IN  IF Strip(fl.text) = <<>> THEN <<>>
        ELSE <<[y |-> block_y, kind |-> "text",
                content |-> heading_prefix \o linked, src |-> <<bi, li>>]>>

LineElement(line, avg_font_size, block_y, bi, li) ==
    IF line.spans = <<>> THEN <<>>
    ELSE FormattedLineElement(format_line(line.spans), avg_font_size, block_y, bi, li)

RECURSIVE BlockElementsFrom(_, _, _, _)
BlockElementsFrom(block, avg_font_size, bi, li) ==
    IF li > Len(block.lines) THEN <<>>
    ELSE LineElement(block.lines[li], avg_font_size, block.bbox.y0, bi, li)
             \o BlockElementsFrom(block, avg_font_size, bi, li + 1)

\* any(block_rect.intersects(tr) for tr in table_rects)
OverlapsTable(block, table_rects) ==
    \E k \in 1..Len(table_rects) : Intersects(block.bbox, table_rects[k])

\* a suppression that tests only the first table rectangle
OverlapsFirstTable(block, table_rects) ==
    table_rects # <<>> /\ Intersects(block.bbox, table_rects[1])

\* whether the text loop skips the block as lying in a table region
SkipsBlock(block, table_rects) == OverlapsTable(block, table_rects)

\* the loop `for block in blocks` over blocks[bi..]
RECURSIVE TextElementsFrom(_, _, _, _)
TextElementsFrom(blocks, table_rects, avg_font_size, bi) ==
    IF bi > Len(blocks) THEN <<>>
    ELSE (IF blocks[bi].type # 0 \/ SkipsBlock(blocks[bi], table_rects) THEN <<>>
          ELSE BlockElementsFrom(blocks[bi], avg_font_size, bi, 1))
             \o TextElementsFrom(blocks, table_rects, avg_font_size, bi + 1)

\* table_rects: the bbox of every extracted table that has one
RECURSIVE TableRects(_)
TableRects(tables) ==
    IF tables = <<>> THEN <<>>
    ELSE (IF tables[1].has_bbox THEN <<tables[1].bbox>> ELSE <<>>)
             \o TableRects(Tail(tables))

\* the width of the page, page.rect.width
PageWidth == 10

\* the rule test on one drawing: wider than 60 % of the page, lower than 5
IsRule(d) ==
    /\ d.has_rect
    /\ RectTruthy(d.rect)
    /\ 10 * RectWidth(d.rect) > 6 * PageWidth
    /\ RectHeight(d.rect) < 5

\* the loop `for d in drawings` inside the try: an exception ends the whole loop
RECURSIVE RuleElementsFrom(_, _)
RuleElementsFrom(drawings, i) ==
    IF i > Len(drawings) THEN <<>>
    ELSE IF drawings[i].raises THEN <<>>
    ELSE (IF IsRule(drawings[i])
          THEN <<[y |-> drawings[i].rect.y0, kind |-> "rule",
                  content |-> <<"-", "-", "-">>, src |-> <<i>>]>>
          ELSE <<>>)
             \o RuleElementsFrom(drawings, i + 1)

\* the loop over extract_hyperlinks' answer, carrying seen_urls
\* a link pass that keeps no set of seen URLs
RECURSIVE LinkElementsAll(_, _, _)
LinkElementsAll(hyperlinks, i, seen_urls) ==
    IF i > Len(hyperlinks) THEN <<>>
    ELSE <<[y |-> hyperlinks[i].y_pos, kind |-> "link",
            content |-> markdown_url(hyperlinks[i].display, hyperlinks[i].url),
            src |-> <<hyperlinks[i].src>>]>>
             \o LinkElementsAll(hyperlinks, i + 1, seen_urls)

RECURSIVE LinkElementsFrom(_, _, _)
LinkElementsFrom(hyperlinks, i, seen_urls) ==
    IF i > Len(hyperlinks) THEN <<>>
    ELSE LET h == hyperlinks[i]
         IN  IF h.url \notin seen_urls
             THEN <<[y |-> h.y_pos, kind |-> "link",
                     content |-> markdown_url(h.display, h.url), src |-> <<h.src>>]>>
                      \o LinkElementsFrom(hyperlinks, i + 1, seen_urls \cup {h.url})
             ELSE LinkElementsFrom(hyperlinks, i + 1, seen_urls)

\* elements.sort(key=lambda e: e[0]): a stable sort; e goes after every element
\* whose key is not greater
RECURSIVE InsertSorted(_, _)
InsertSorted(sorted, e) ==
    IF sorted = <<>> THEN <<e>>
    ELSE IF sorted[Len(sorted)].y <= e.y THEN Append(sorted, e)
    ELSE Append(InsertSorted(Slice(sorted, 1, Len(sorted) - 1), e), sorted[Len(sorted)])

\* the same, e going before the elements of equal key
RECURSIVE InsertSortedBefore(_, _)
InsertSortedBefore(sorted, e) ==
    IF sorted = <<>> THEN <<e>>
    ELSE IF sorted[Len(sorted)].y < e.y THEN Append(sorted, e)
    ELSE Append(InsertSortedBefore(Slice(sorted, 1, Len(sorted) - 1), e),
                sorted[Len(sorted)])

RECURSIVE UnstableSortFrom(_, _)
UnstableSortFrom(es, sorted) ==
    IF es = <<>> THEN sorted
    ELSE UnstableSortFrom(Tail(es), InsertSortedBefore(sorted, es[1]))

\* a sort that is not stable: equal keys come out in reverse
UnstableSortByY(es) == UnstableSortFrom(es, <<>>)

RECURSIVE SortFrom(_, _)
SortFrom(es, sorted) ==
    IF es = <<>> THEN sorted ELSE SortFrom(Tail(es), InsertSorted(sorted, es[1]))

\* elements.sort(key=lambda e: e[0]): stable, ascending in y
SortByY(es) == SortFrom(es, <<>>)

\* step 2 of _process_page: one rendered line per Element
RenderLine(e) ==
    IF e.kind = "rule" THEN <<"\n", "-", "-", "-", "\n">>
    ELSE IF e.kind \in {"table", "image", "annotation", "link"}
    THEN <<"\n">> \o e.content \o <<"\n">>
    ELSE e.content

\* step 1 of _process_page: the Elements in the order the extractors emit them,
\* and the image directory after the image pass
CollectFrom(p, avg_font_size, tables, imgs, annots) ==
    LET table_rects == TableRects(tables)
    IN  [elements |->
            [k \in 1..Len(tables) |->
                [y |-> tables[k].y_pos, kind |-> "table",
                 content |-> tables[k].md, src |-> <<tables[k].src>>]]
            \o TextElementsFrom(p.blocks, table_rects, avg_font_size, 1)
            \o [k \in 1..Len(imgs.results) |->
                [y |-> imgs.results[k].y_pos, kind |-> "image",
                 content |-> imgs.results[k].md, src |-> <<imgs.results[k].src>>]]
            \o [k \in 1..Len(annots) |->
                [y |-> annots[k].y_pos, kind |-> "annotation",
                 content |-> annots[k].md, src |-> <<annots[k].src>>]]
            \o LinkElementsFrom(extract_hyperlinks(p), 1, {})
            \o (IF p.get_drawings_raises THEN <<>> ELSE RuleElementsFrom(p.drawings, 1)),
         files |-> imgs.files]

CollectElements(p, page_num, images_dir, fs) ==
    CollectFrom(p, _compute_avg_font_size(p), TableExtractor_extract_all(p),
                ImageExtractor_extract_all(p, page_num, images_dir, fs),
                AnnotationExtractor_extract_all(p))

\* _process_page: the sorted Elements, the Markdown of the page, the directory
\* step 2 of _process_page: the collected Elements sorted by y and rendered
SortAndRender(c) ==
    LET sorted == SortByY(c.elements)
    IN  [elements |-> sorted,
         markdown |-> Join(<<"\n">>, [k \in 1..Len(sorted) |-> RenderLine(sorted[k])]),
         files |-> c.files]

_process_page(p, page_num, images_dir, fs) ==
    SortAndRender(CollectElements(p, page_num, images_dir, fs))

(***************************************************************************)
(* The pages the engine is run on.  The environment puts a page together   *)
(* from the samples below, at most MaxItems features in all, and then      *)
(* _process_page runs once on it.                                          *)
(***************************************************************************)
MaxItems == 3

MaxPageNum == 1

RectA == [x0 |-> 0, y0 |-> 0, x1 |-> 10, y1 |-> 2]

RectB == [x0 |-> 0, y0 |-> 2, x1 |-> 10, y1 |-> 4]

RectC == [x0 |-> 0, y0 |-> 4, x1 |-> 10, y1 |-> 6]

\* overlaps RectA and RectB
RectAB == [x0 |-> 0, y0 |-> 1, x1 |-> 10, y1 |-> 3]

UrlX == <<"h", "t", "t", "p", ":", "/", "/", "x">>

UrlY == <<"h", "t", "t", "p", "s", ":", "/", "/", "y">>

GridAB == << << <<"A">>, <<"B">> >>, << <<"1">>, <<"2">> >> >>

GridRagged == << << <<"A">> >>, << <<"1">>, NoCell >> >>

TableSamples ==
    {[data |-> GridAB, bbox |-> RectA, has_bbox |-> TRUE, raises |-> FALSE],
     [data |-> GridRagged, bbox |-> RectB, has_bbox |-> TRUE, raises |-> FALSE],
     [data |-> << <<>> >>, bbox |-> RectA, has_bbox |-> TRUE, raises |-> FALSE],
     [data |-> <<>>, bbox |-> RectA, has_bbox |-> TRUE, raises |-> TRUE],
     [data |-> GridAB, bbox |-> ZeroRect, has_bbox |-> FALSE, raises |-> FALSE]}

Span(text, flags, size) == [text |-> text, flags |-> flags, size |-> size]

LinePlain == [spans |-> <<Span(<<"H", "i", " ">>, 0, 10)>>]

LineUrl == [spans |-> <<Span(<<"s", "e", "e">>, 2, 10), Span(UrlX, 0, 10)>>]

LineNumbered == [spans |-> <<Span(<<"1", ")", " ", "a">>, 0, 10)>>]

LineTitle == [spans |-> <<Span(<<"T">>, 16, 24)>>]

LineBlank == [spans |-> <<Span(<<" ">>, 0, 10)>>]

LineNoSpans == [spans |-> <<>>]

BlockSamples ==
    {[type |-> 0, bbox |-> RectAB, lines |-> <<LinePlain, LineUrl>>],
     [type |-> 0, bbox |-> RectB, lines |-> <<LineNumbered>>],
     [type |-> 0, bbox |-> RectC, lines |-> <<LineTitle, LineBlank, LineUrl>>],
     [type |-> 0, bbox |-> RectA, lines |-> <<LineNoSpans, LinePlain>>],
     [type |-> 1, bbox |-> RectA, lines |-> <<>>]}

ImageSamples ==
    {[xref |-> 1, alpha |-> FALSE, raises |-> FALSE, rects |-> <<RectA>>, rects_raise |-> FALSE],
     [xref |-> 2, alpha |-> TRUE, raises |-> FALSE, rects |-> <<RectC, RectA>>, rects_raise |-> FALSE],
     [xref |-> 3, alpha |-> FALSE, raises |-> FALSE, rects |-> <<>>, rects_raise |-> TRUE],
     [xref |-> 4, alpha |-> FALSE, raises |-> TRUE, rects |-> <<>>, rects_raise |-> FALSE]}

AnnotSamples ==
    {[subtype |-> "Highlight", content |-> <<>>, textbox |-> <<"h", "l", " ">>,
      textbox_raises |-> FALSE, rect |-> RectB, raises |-> FALSE],
     [subtype |-> "Text", content |-> <<" ", "n">>, textbox |-> <<>>,
      textbox_raises |-> FALSE, rect |-> RectA, raises |-> FALSE],
     [subtype |-> "Underline", content |-> <<>>, textbox |-> <<"u">>,
      textbox_raises |-> FALSE, rect |-> RectA, raises |-> FALSE],
     [subtype |-> "Square", content |-> <<"s">>, textbox |-> <<>>,
      textbox_raises |-> FALSE, rect |-> RectC, raises |-> FALSE],
     [subtype |-> "Stamp", content |-> <<"x">>, textbox |-> <<>>,
      textbox_raises |-> FALSE, rect |-> RectA, raises |-> TRUE]}

LinkSamples ==
    {[uri |-> UrlX, from |-> RectB, textbox |-> <<"x", " ">>],
     [uri |-> UrlX, from |-> ZeroRect, textbox |-> <<>>],
     [uri |-> UrlY, from |-> RectC, textbox |-> <<>>],
     [uri |-> <<>>, from |-> RectA, textbox |-> <<"n">>]}

DrawingSamples ==
    {[rect |-> [x0 |-> 0, y0 |-> 2, x1 |-> 10, y1 |-> 2], has_rect |-> TRUE, raises |-> FALSE],
     [rect |-> [x0 |-> 1, y0 |-> 0, x1 |-> 8, y1 |-> 1], has_rect |-> TRUE, raises |-> FALSE],
     [rect |-> [x0 |-> 0, y0 |-> 0, x1 |-> 6, y1 |-> 1], has_rect |-> TRUE, raises |-> FALSE],
     [rect |-> RectC, has_rect |-> TRUE, raises |-> TRUE]}

EmptyPage ==
    [tables |-> <<>>, blocks |-> <<>>, images |-> <<>>, annots |-> <<>>,
     links |-> <<>>, drawings |-> <<>>,
     find_tables_raises |-> FALSE, get_drawings_raises |-> FALSE]

\* how many features the environment has given the page
PageItems(p) ==
    Len(p.tables) + Len(p.blocks) + Len(p.images) + Len(p.annots)
        + Len(p.links) + Len(p.drawings)
        + (IF p.find_tables_raises THEN 1 ELSE 0)
        + (IF p.get_drawings_raises THEN 1 ELSE 0)

NoArgs == [none |-> TRUE]

NoFiles == <<>>

Init ==
    /\ pc = "input"
    /\ page = EmptyPage
    /\ args = NoArgs
    /\ elements = <<>>
    /\ result = <<>>
    /\ raised = "none"
    /\ files = NoFiles

CanAdd == pc = "input" /\ PageItems(page) < MaxItems

Keep == UNCHANGED <<pc, args, elements, result, raised, files>>

AddTable ==
    /\ CanAdd
    /\ \E t \in TableSamples : page' = [page EXCEPT !.tables = Append(@, t)]
    /\ Keep

AddBlock ==
    /\ CanAdd
    /\ \E b \in BlockSamples : page' = [page EXCEPT !.blocks = Append(@, b)]
    /\ Keep

AddImage ==
    /\ CanAdd
    /\ \E i \in ImageSamples : page' = [page EXCEPT !.images = Append(@, i)]
    /\ Keep

AddAnnot ==
    /\ CanAdd
    /\ \E a \in AnnotSamples : page' = [page EXCEPT !.annots = Append(@, a)]
    /\ Keep

AddLink ==
    /\ CanAdd
    /\ \E l \in LinkSamples : page' = [page EXCEPT !.links = Append(@, l)]
    /\ Keep

AddDrawing ==
    /\ CanAdd
    /\ \E d \in DrawingSamples : page' = [page EXCEPT !.drawings = Append(@, d)]
    /\ Keep

\* the table finder of the page fails as a whole
BreakFindTables ==
    /\ CanAdd
    /\ ~page.find_tables_raises
    /\ page' = [page EXCEPT !.find_tables_raises = TRUE]
    /\ Keep

\* the drawing enumeration of the page fails as a whole
BreakGetDrawings ==
    /\ CanAdd
    /\ ~page.get_drawings_raises
    /\ page' = [page EXCEPT !.get_drawings_raises = TRUE]
    /\ Keep

\* one call of _process_page(page, page_num, images_dir)
ProcessPage ==
    /\ pc = "input"
    /\ \E page_num \in 0..MaxPageNum, images_dir \in {"None", "images"} :
          \E r \in {_process_page(page, page_num, images_dir, files)} :
              /\ args' = [page_num |-> page_num, images_dir |-> images_dir]
              /\ elements' = r.elements
              /\ result' = r.markdown
              /\ files' = r.files
    /\ pc' = "done"
    /\ UNCHANGED <<page, raised>>

Next ==
    \/ AddTable
    \/ AddBlock
    \/ AddImage
    \/ AddAnnot
    \/ AddLink
    \/ AddDrawing
    \/ BreakFindTables
    \/ BreakGetDrawings
    \/ ProcessPage

Spec == Init /\ [][Next]_vars

(***************************************************************************)
(* Properties of _process_page, under Spec                                 *)
(***************************************************************************)
Done == pc = "done"

\* the place of an Element's extractor in the order _process_page runs them
KindRank(kind) ==
    CASE kind = "table" -> 1
      [] kind = "text" -> 2
      [] kind = "image" -> 3
      [] kind = "annotation" -> 4
      [] kind = "link" -> 5
      [] kind = "rule" -> 6

\* e was emitted before f: an earlier extractor, or the same extractor and an
\* earlier item of its enumeration (for text: an earlier block, or line of the block)
EmittedBefore(e, f) ==
    \/ KindRank(e.kind) < KindRank(f.kind)
    \/ /\ e.kind = f.kind
       /\ \/ e.src[1] < f.src[1]
          \/ e.src[1] = f.src[1] /\ Len(e.src) = 2 /\ e.src[2] < f.src[2]

\* C1: the Elements of a page, as rendered, are non-decreasing in vertical
\* position, and two Elements of equal position keep the order in which the
\* extractors emitted them (tables, text, images, annotations, links, rules).
C1_SortedStable ==
    Done =>
        \A i, j \in 1..Len(elements) :
            i < j =>
                /\ elements[i].y <= elements[j].y
                /\ elements[i].y = elements[j].y => EmittedBefore(elements[i], elements[j])

\* a page where the sort had to move an Element up and also kept a tie of two
\* kinds in emission order
C1_Witness ==
    /\ Done
    /\ \E i, j \in 1..Len(elements) :
          i < j /\ elements[i].y = elements[j].y /\ elements[i].kind # elements[j].kind
    /\ \E i, j \in 1..Len(elements) :
          i < j /\ elements[i].y < elements[j].y
              /\ KindRank(elements[i].kind) > KindRank(elements[j].kind)

\* the text Elements that come from block bi of the page
TextElementsOf(bi) ==
    {k \in 1..Len(elements) : elements[k].kind = "text" /\ elements[k].src[1] = bi}

\* the tables of the page that became a table Element
EmittedTables ==
    {elements[k].src[1] : k \in {n \in 1..Len(elements) : elements[n].kind = "table"}}

HasVisibleLine(bi) ==
    /\ page.blocks[bi].type = 0
    /\ \E li \in 1..Len(page.blocks[bi].lines) :
          LineElement(page.blocks[bi].lines[li], _compute_avg_font_size(page), 0, bi, li) # <<>>

ContainsSub(s, sub) == \E i \in 1..Len(s) : StartsWithAt(s, sub, i)

\* u was emitted as a bare-URL-derived link in a text Element of the page
BareLinked(u) ==
    \E k \in 1..Len(elements) :
        elements[k].kind = "text" /\ ContainsSub(elements[k].content, markdown_url(u, u))

\* C3: a link Element for URL u is emitted only if u was not already emitted as
\* a bare-URL-derived link in a text Element of the page.
C3_NoLinkForBareLinkedUrl ==
    Done =>
        \A k \in 1..Len(elements) :
            elements[k].kind = "link" => ~BareLinked(page.links[elements[k].src[1]].uri)

\* table ti alone would be emitted
GoodTable(ti) ==
    /\ ~page.find_tables_raises
    /\ ~page.tables[ti].raises
    /\ _to_markdown(page.tables[ti].data) # <<>>

GoodImage(ii) == ~page.images[ii].raises

GoodAnnot(ai) == AnnotResult(page.annots[ai], ai) # <<>>

GoodDrawing(di) ==
    /\ ~page.get_drawings_raises
    /\ ~page.drawings[di].raises
    /\ IsRule(page.drawings[di])

Emitted(kind, i) ==
    \E k \in 1..Len(elements) : elements[k].kind = kind /\ elements[k].src[1] = i

\* reading one table, image, annotation or drawing of the page fails
SomeItemFails ==
    \/ \E i \in 1..Len(page.tables) : ~page.find_tables_raises /\ page.tables[i].raises
    \/ \E i \in 1..Len(page.images) : page.images[i].raises
    \/ \E i \in 1..Len(page.annots) : page.annots[i].raises
    \/ \E i \in 1..Len(page.drawings) : ~page.get_drawings_raises /\ page.drawings[i].raises

\* C5: when reading a single table, image, annotation or drawing fails, nothing
\* reaches the caller and every other table, image, annotation and rule of the
\* page, those after the failing one too, is still emitted.
C5_OnlyFailingItemDropped ==
    (Done /\ SomeItemFails) =>
        /\ raised = "none"
        /\ \A i \in 1..Len(page.tables) : GoodTable(i) => Emitted("table", i)
        /\ \A i \in 1..Len(page.images) : GoodImage(i) => Emitted("image", i)
        /\ \A i \in 1..Len(page.annots) : GoodAnnot(i) => Emitted("annotation", i)
        /\ \A i \in 1..Len(page.drawings) : GoodDrawing(i) => Emitted("rule", i)

\* the image Elements of the page, each with the index of its image
ImageElements == {k \in 1..Len(elements) : elements[k].kind = "image"}

ImageFilePath(k) ==
    PathJoin(args.images_dir,
        ImageFileName(args.page_num, elements[k].src[1] - 1,
                      ExtOf(page.images[elements[k].src[1]])))

PDFMetadataExtractor_extract(doc) ==
    [title |-> IF doc.metadata.title = <<>> THEN <<"Untitled">> ELSE doc.metadata.title,
     author |-> IF doc.metadata.author = <<>> THEN <<"Unknown">> ELSE doc.metadata.author,
     subject |-> doc.metadata.subject,
     creator |-> doc.metadata.creator,
     creation_date |-> doc.metadata.creationDate,
     modified_date |-> doc.metadata.modDate,
     pages |-> Len(doc.pages),
     encrypted |-> doc.is_encrypted]

FrontmatterKeys ==
    <<"title", "author", "subject", "creator", "creation_date", "modified_date",
      "pages", "encrypted">>

\* val not in (None, "")
KeptInFrontmatter(meta, key) ==
    IF key \in {"pages", "encrypted"} THEN TRUE
    ELSE meta[key] # <<>> /\ meta[key] # <<"None">>

\* create_frontmatter: the (key, value) lines between the two "---" lines
RECURSIVE FrontmatterFrom(_, _)
FrontmatterFrom(meta, i) ==
    IF i > Len(FrontmatterKeys) THEN <<>>
    ELSE (IF KeptInFrontmatter(meta, FrontmatterKeys[i])
          THEN <<[key |-> FrontmatterKeys[i], val |-> meta[FrontmatterKeys[i]]]>>
          ELSE <<>>)
             \o FrontmatterFrom(meta, i + 1)

create_frontmatter(meta) == [kind |-> "frontmatter", body |-> FrontmatterFrom(meta, 1)]

\* BookmarkExtractor.extract_raw: the stripped titles that are not blank
RECURSIVE extract_raw(_)
extract_raw(toc) ==
    IF toc = <<>> THEN <<>>
    ELSE (IF Strip(toc[1]) # <<>> THEN <<Strip(toc[1])>> ELSE <<>>) \o extract_raw(Tail(toc))

\* the size_str of one embedded file: the number and its unit
SizeStr(size) ==
    IF size >= 1024 * 1024 THEN <<size, "MB">>
    ELSE IF size >= 1024 THEN <<size, "KB">>
    ELSE <<size, "B">>

RECURSIVE EmbeddedLinesFrom(_, _)
EmbeddedLinesFrom(embfiles, i) ==
    IF i > Len(embfiles) THEN <<>>
    ELSE (IF embfiles[i].raises THEN <<>>
          ELSE <<[name |-> embfiles[i].name, size |-> SizeStr(embfiles[i].size)]>>)
             \o EmbeddedLinesFrom(embfiles, i + 1)

\* EmbeddedFileExtractor.extract: no part (the empty string) without embedded files
EmbeddedFileExtractor_extract(doc) ==
    IF Len(doc.embfiles) = 0 THEN <<>>
    ELSE <<[kind |-> "embedded", body |-> EmbeddedLinesFrom(doc.embfiles, 1)]>>

\* SecurityHandler.authenticate
authenticate(doc, password) == password \in doc.passwords

\* SecurityHandler.get_permissions_info: no part (the empty string) when the
\* document is not encrypted
get_permissions_info(doc) ==
    IF ~doc.is_encrypted THEN <<>>
    ELSE <<[kind |-> "security", print |-> doc.perms.print, copy |-> doc.perms.copy,
            modify |-> doc.perms.modify]>>

(***************************************************************************)
(* engine.py: pdf_to_markdown                                              *)
(***************************************************************************)
\* `if password:` -- None and "" count as no password
Supplied(password) == password # "None" /\ password # ""

\* a gate that asks for a password of every encrypted document
PasswordGateAlwaysAsks(doc, password) ==
    IF ~doc.is_encrypted THEN "open"
    ELSE IF Supplied(password)
    THEN (IF authenticate(doc, password) THEN "open" ELSE "Invalid password!")
    ELSE "PDF is password-protected. Please provide a password."

\* the security block of pdf_to_markdown: "open", or the message of the
\* PermissionError it raises
PasswordGate(doc, password) ==
    IF ~doc.is_encrypted THEN "open"
    ELSE IF Supplied(password)
    THEN (IF authenticate(doc, password) THEN "open" ELSE "Invalid password!")
    ELSE IF doc.needs_pass
    THEN "PDF is password-protected. Please provide a password."
    ELSE "open"

\* the two result_parts of page page_num, r being what _process_page returned;
\* `elements` records the Elements of the page (a history field, read by no
\* operation)
AppendPage(acc, page_num, r) ==
    [parts |-> acc.parts
                 \o <<[kind |-> "page_heading", number |-> page_num + 1],
                      [kind |-> "page", number |-> page_num + 1, text |-> r.markdown,
                       elements |-> r.elements]>>,
     files |-> r.files]

\* the loop `for page_num in range(doc.page_count)` from page_num on, carrying
\* the parts so far and the image directory: two parts per page
RECURSIVE PagePartsFrom(_, _, _, _)
PagePartsFrom(doc, page_num, extract_images_dir, acc) ==
    IF page_num >= Len(doc.pages) THEN acc
    ELSE PagePartsFrom(doc, page_num + 1, extract_images_dir,
             AppendPage(acc, page_num,
                 _process_page(doc.pages[page_num + 1], page_num,
                               extract_images_dir, acc.files)))

\* the sections after the pages, security first
TrailingPartsSwapped(doc) ==
    get_permissions_info(doc) \o EmbeddedFileExtractor_extract(doc)

\* the sections after the pages: the embedded files, then the security info
TrailingParts(doc) ==
    EmbeddedFileExtractor_extract(doc) \o get_permissions_info(doc)

NoResult == [none |-> TRUE]

\* the return of pdf_to_markdown, given the metadata, the bookmark titles and
\* the parts and files of the page loop
Converted(doc, meta, toc, pages) ==
    [raised |-> "none",
     result |->
         [parts |-> <<create_frontmatter(meta)>> \o pages.parts \o TrailingParts(doc),
          meta |-> IF toc # <<>> THEN ("bookmarks" :> toc) @@ meta ELSE meta],
     files |-> pages.files]

\* pdf_to_markdown(pdf_path, password, extract_images_dir), pdf being what is at
\* pdf_path (whether it is a file, and the document fitz.open makes of it): what
\* it raises, what it returns (the parts it joins with "\n", kept apart, and the
\* metadata), the image directory
pdf_to_markdown(pdf, password, extract_images_dir, fs) ==
    IF ~pdf.is_file
    THEN [raised |-> "FileNotFoundError", result |-> NoResult, files |-> fs]
    ELSE IF PasswordGate(pdf.doc, password) # "open"
    THEN [raised |-> "PermissionError", result |-> NoResult, files |-> fs]
    ELSE Converted(pdf.doc, PDFMetadataExtractor_extract(pdf.doc),
                   extract_raw(pdf.doc.toc),
                   PagePartsFrom(pdf.doc, 0, extract_images_dir,
                                 [parts |-> <<>>, files |-> fs]))

(***************************************************************************)
(* The documents pdf_to_markdown is run on, and its calls (SpecDoc)        *)
(***************************************************************************)
MaxPages == 2

PageOfText ==
    [EmptyPage EXCEPT
        !.blocks = <<[type |-> 0, bbox |-> RectC, lines |-> <<LineTitle, LineUrl>>]>>]

PageOfImages ==
    [EmptyPage EXCEPT
        !.images = <<[xref |-> 1, alpha |-> FALSE, raises |-> FALSE,
                      rects |-> <<RectA>>, rects_raise |-> FALSE],
                     [xref |-> 2, alpha |-> TRUE, raises |-> FALSE,
                      rects |-> <<RectC>>, rects_raise |-> FALSE]>>,
        !.tables = <<[data |-> GridAB, bbox |-> RectA, has_bbox |-> TRUE, raises |-> FALSE]>>]

\* the last two hold link annotations only, two of them to the same URL
DocPageSamples ==
    {PageOfText, PageOfImages,
     [EmptyPage EXCEPT
         !.links = <<[uri |-> UrlX, from |-> RectB, textbox |-> <<"x", " ">>],
                     [uri |-> UrlX, from |-> ZeroRect, textbox |-> <<>>],
                     [uri |-> UrlY, from |-> RectC, textbox |-> <<>>]>>],
     [EmptyPage EXCEPT
         !.links = <<[uri |-> UrlX, from |-> ZeroRect, textbox |-> <<>>],
                     [uri |-> <<>>, from |-> RectA, textbox |-> <<"n">>],
                     [uri |-> UrlX, from |-> RectB, textbox |-> <<"x", " ">>]>>]}

\* the sequences over S of length at most n
SeqsUpTo(S, n) == UNION {[1..k -> S] : k \in 0..n}

TocSamples == {<<>>, << <<" ">> >>, << <<"C", "h", "1", " ">>, <<"\t">>, <<"C", "h", "2">> >>}

EmbfileSamples ==
    {<<>>,
     <<[name |-> "a.txt", size |-> 10, raises |-> FALSE]>>,
     <<[name |-> "b.bin", size |-> 2048, raises |-> TRUE]>>,
     <<[name |-> "c.csv", size |-> 2048, raises |-> FALSE],
       [name |-> "d.zip", size |-> 2097152, raises |-> FALSE]>>}

MetadataSamples ==
    {[title |-> t, author |-> <<>>, subject |-> <<>>, creator |-> <<"w">>,
      creationDate |-> <<"2024-01-15T10:30:00+00:00">>, modDate |-> <<"None">>]
        : t \in {<<>>, <<"T">>}}

\* is_encrypted and needs_pass are the attributes of the open document as
\* the code reads them; a document that needs a password is encrypted
DocSamples ==
    {[is_encrypted |-> e, needs_pass |-> n, passwords |-> {"good"},
      perms |-> [print |-> TRUE, copy |-> FALSE, modify |-> FALSE],
      metadata |-> m, toc |-> t, embfiles |-> f, pages |-> ps]
        : e \in BOOLEAN, n \in BOOLEAN, m \in MetadataSamples,
          t \in TocSamples, f \in EmbfileSamples, ps \in SeqsUpTo(DocPageSamples, MaxPages)}

\* what is at pdf_path: a document, or nothing (is_file false, doc unread)
PdfSamples ==
    {[is_file |-> TRUE, doc |-> d]
        : d \in {x \in DocSamples : x.needs_pass => x.is_encrypted}}
    \cup {[is_file |-> FALSE, doc |-> CHOOSE x \in DocSamples : TRUE]}

PasswordSamples == {"None", "", "good", "bad"}

InitDoc ==
    /\ pc = "input"
    /\ page = EmptyPage
    /\ args \in
          {[pdf |-> f, password |-> pw, extract_images_dir |-> dir]
              : f \in PdfSamples, pw \in PasswordSamples, dir \in {"None", "images"}}
    /\ elements = <<>>
    /\ result = NoResult
    /\ raised = "none"
    /\ files = NoFiles

\* one call of pdf_to_markdown(pdf_path, password, extract_images_dir)
PdfToMarkdown ==
    /\ pc = "input"
    /\ \E r \in {pdf_to_markdown(args.pdf, args.password, args.extract_images_dir, files)} :
           /\ raised' = r.raised
           /\ result' = r.result
           /\ files' = r.files
    /\ pc' = "done"
    /\ UNCHANGED <<page, args, elements>>

NextDoc == PdfToMarkdown

SpecDoc == InitDoc /\ [][NextDoc]_vars

(***************************************************************************)
(* Properties of pdf_to_markdown, under SpecDoc                            *)
(***************************************************************************)
\* the document is encrypted and either a password was supplied and does not
\* authenticate, or none was supplied and the document requires one
AccessDenied ==
    LET doc == args.pdf.doc
    IN  /\ doc.is_encrypted
        /\ \/ Supplied(args.password) /\ ~authenticate(doc, args.password)
           \/ ~Supplied(args.password) /\ doc.needs_pass

\* C4: for an existing input file, pdf_to_markdown raises PermissionError
\* exactly when the document is encrypted and the supplied password fails or a
\* required password is missing; then nothing is produced (no metadata, no page,
\* no trailing section, no image file); in every other case it returns a result.
C4_AccessDeniedExactly ==
    (Done /\ args.pdf.is_file) =>
        /\ raised = "PermissionError" <=> AccessDenied
        /\ IF AccessDenied
           THEN result = NoResult /\ files = NoFiles
           ELSE /\ raised = "none"
                /\ result # NoResult
                /\ result.parts[1].kind = "frontmatter"
                /\ result.meta.pages = Len(args.pdf.doc.pages)

\* an encrypted document that requires a password is opened without one
C4_Witness ==
    /\ Done
    /\ args.pdf.is_file
    /\ args.pdf.doc.is_encrypted
    /\ args.pdf.doc.needs_pass
    /\ args.password = "None"
    /\ raised = "PermissionError"

Returned == Done /\ raised = "none"

\* the parts after the front-matter and the two parts of every page
TrailingOf(parts, page_count) == Slice(parts, 2 * page_count + 2, Len(parts))

KindsOf(parts) == [k \in 1..Len(parts) |-> parts[k].kind]

LinkElementsOf(k, li) ==
    LET els == result.parts[2 * k + 1].elements
    IN  {e \in {els[m] : m \in 1..Len(els)} : e.kind = "link" /\ e.src[1] = li}

FirstWithUrl(links, li) ==
    links[li].uri # <<>> /\ \A lj \in 1..(li - 1) : links[lj].uri # links[li].uri

MaxFontSize == 50

MaxAvgSize == 25

InitHeading ==
    /\ pc = "input"
    /\ page = EmptyPage
    /\ args \in
          {[font_size |-> f, avg_size |-> [num |-> a, den |-> 1], is_bold |-> b]
              : f \in 0..MaxFontSize, a \in (-1)..MaxAvgSize, b \in BOOLEAN}
    /\ elements = <<>>
    /\ result = NoResult
    /\ raised = "none"
    /\ files = NoFiles

\* one call of HeadingDetector.detect_heading(font_size, avg_size, is_bold)
DetectHeading ==
    /\ pc = "input"
    /\ result' = detect_heading(args.font_size, args.avg_size, args.is_bold)
    /\ pc' = "done"
    /\ UNCHANGED <<page, args, elements, raised, files>>

NextHeading == DetectHeading

SpecHeading == InitHeading /\ [][NextHeading]_vars

\* C6: detect_heading depends on (font size, page average, bold) alone, first
\* match wins: no prefix when the average is <= 0; otherwise, with
\* ratio = size / average, "# " when ratio >= 1.8, else "## " when ratio >= 1.35,
\* else "### " when ratio >= 1.15 and bold, else no prefix.
C6_HeadingPolicy ==
    Done =>
        LET f == args.font_size
            a == args.avg_size.num
            b == args.is_bold
        IN  /\ result \in {H1, H2, H3, NoPrefix}
            /\ a <= 0 => result = NoPrefix
            /\ result = H1 <=> (a > 0 /\ 10 * f >= 18 * a)
            /\ result = H2 <=> (a > 0 /\ 10 * f < 18 * a /\ 20 * f >= 27 * a)
            /\ result = H3 <=> (a > 0 /\ 20 * f < 27 * a /\ 20 * f >= 23 * a /\ b)

\* a bold line at ratio exactly 1.16 gets "### "
C6_Witness ==
    /\ Done
    /\ args.avg_size.num > 0
    /\ 100 * args.font_size = 116 * args.avg_size.num
    /\ args.is_bold
    /\ result = H3

(***************************************************************************)
(* The List Normalizer on its own (SpecList)                               *)
(***************************************************************************)
MaxLineLen == 4

LineAlphabet == {"1", "2", "a", ")", ".", " ", "-", "*"}

InitList ==
    /\ pc = "input"
    /\ page = EmptyPage
    /\ args \in {[text |-> t] : t \in SeqsUpTo(LineAlphabet, MaxLineLen)}
    /\ elements = <<>>
    /\ result = NoResult
    /\ raised = "none"
    /\ files = NoFiles

\* one call of ListDetector.process_line(text)
ProcessLine ==
    /\ pc = "input"
    /\ result' = process_line(args.text)
    /\ pc' = "done"
    /\ UNCHANGED <<page, args, elements, raised, files>>

\* process_line called on what the first call returned; args keeps the
\* first result
ProcessLineAgain ==
    /\ pc = "done"
    /\ args' = [text |-> args.text, once |-> result]
    /\ result' = process_line(result)
    /\ pc' = "again"
    /\ UNCHANGED <<page, elements, raised, files>>

NextList == ProcessLine \/ ProcessLineAgain

SpecList == InitList /\ [][NextList]_vars

AllSpaces(s) == \A k \in 1..Len(s) : IsSpace(s[k])

AllDigits(s) == \A k \in 1..Len(s) : IsDigit(s[k])

\* text is a numbered item: blanks, then the ordinal ord (a decimal number or one
\* letter), then "." or ")", then at least one blank, then rest
NumberedItem(text, ord, rest) ==
    \E i \in 1..Len(text), j \in 1..Len(text), k \in 1..Len(text) :
        /\ i <= j /\ j < k
        /\ AllSpaces(Slice(text, 1, i - 1))
        /\ ord = Slice(text, i, j - 1)
        /\ ord # <<>>
        /\ AllDigits(ord) \/ (Len(ord) = 1 /\ ord[1] \in Letters)
        /\ text[j] \in {".", ")"}
        /\ AllSpaces(Slice(text, j + 1, k))
        /\ rest = Slice(text, k + 1, Len(text))
        /\ rest = <<>> \/ ~IsSpace(rest[1])

\* C10: the List Normalizer rewrites a numbered item so that the number or
\* letter is preserved, the delimiter is ".", also where it was ")", and the
\* rest of the line is untouched.
C10_NumberedCanonical ==
    Done =>
        \A j \in 1..Len(args.text), k \in 1..Len(args.text) :
            LET ord == Strip(Slice(args.text, 1, j - 1))
                rest == Slice(args.text, k + 1, Len(args.text))
            IN  NumberedItem(args.text, ord, rest) => result = ord \o <<".", " ">> \o rest

\* C11: process_line is idempotent, process_line(process_line(x)) = process_line(x)
\* for every line x; the canonical lines "- a" and "1. a" come back unchanged
\* and "1) a" becomes "1. a".
C11_ProcessLineIdempotent ==
    /\ pc = "again" => result = args.once
    /\ (Done /\ args.text = <<"-", " ", "a">>) => result = <<"-", " ", "a">>
    /\ (Done /\ args.text = <<"1", ".", " ", "a">>) => result = <<"1", ".", " ", "a">>
    /\ (Done /\ args.text = <<"1", ")", " ", "a">>) => result = <<"1", ".", " ", "a">>

\* a line that the first call rewrote has been through the second call
C11_Witness ==
    /\ pc = "again"
    /\ args.text = <<"*", " ", " ", "a">>
    /\ args.once = <<"-", " ", "a">>
    /\ result = <<"-", " ", "a">>

(***************************************************************************)
(* The bare-URL linker on its own (SpecUrl)                                *)
(***************************************************************************)
MaxAffixLen == 2

\* a line with exactly one bare URL: text before it, the URL, text after it
InitUrl ==
    /\ pc = "input"
    /\ page = EmptyPage
    /\ args \in
          {[pre |-> a, url |-> u, suf |-> b, text |-> a \o u \o b]
              : a \in SeqsUpTo({"a", " ", "("}, MaxAffixLen),
                u \in {<<"h", "t", "t", "p", ":", "/", "/", "x">>,
                       <<"h", "t", "t", "p", "s", ":", "/", "/", "x", ".", "y", "/", "a">>},
                b \in SeqsUpTo({"a", " ", ")"}, MaxAffixLen)}
    /\ elements = <<>>
    /\ result = NoResult
    /\ raised = "none"
    /\ files = NoFiles

\* one call of URLExtractor.replace_urls_in_text(text)
ReplaceUrls ==
    /\ pc = "input"
    /\ result' = replace_urls_in_text(args.text)
    /\ pc' = "done"
    /\ UNCHANGED <<page, args, elements, raised, files>>

\* replace_urls_in_text called on what the first call returned; args keeps
\* the first result
ReplaceUrlsAgain ==
    /\ pc = "done"
    /\ args' = [args EXCEPT !.text = result]
    /\ result' = replace_urls_in_text(result)
    /\ pc' = "again"
    /\ UNCHANGED <<page, elements, raised, files>>

SpecUrl == InitUrl /\ [][ReplaceUrls \/ ReplaceUrlsAgain]_vars

\* the URL of the line ends where the line ends or a blank or ")" follows
UrlDelimited == args.suf = <<>> \/ args.suf[1] \in {" ", ")"}

Wrapped(u) == <<"[">> \o u \o <<"]", "(">> \o u \o <<")">>

\* C12 (as amended): the linker turns a line with exactly one bare URL u into
\* the same line with u replaced by "[u](u)"; the linker is not idempotent:
\* run again on that result it wraps both occurrences of u once more, giving
\* "[[u](u)]([u](u))" in the place of u.
C12_LinkerWrapsAndRewraps ==
    UrlDelimited =>
        /\ Done => result = args.pre \o Wrapped(args.url) \o args.suf
        /\ pc = "again" =>
              /\ args.text = args.pre \o Wrapped(args.url) \o args.suf
              /\ result = args.pre
                             \o <<"[">> \o Wrapped(args.url) \o <<"]", "(">>
                             \o Wrapped(args.url) \o <<")">>
                             \o args.suf

\* the line that is the URL alone has been through both calls
C12_Witness ==
    /\ pc = "again"
    /\ args.pre = <<>> /\ args.suf = <<>>
    /\ args.text = Wrapped(args.url)
    /\ result # args.text

\* C12 (as stated): the linker turns a line with exactly one bare URL u into
\* "[u](u)", and run again on that result it leaves it unchanged.
C12_LinkerRerunUnchanged ==
    UrlDelimited =>
        /\ Done => result = args.pre \o Wrapped(args.url) \o args.suf
        /\ pc = "again" => result = args.text

(***************************************************************************)
(* A page whose only content is one table (SpecTable)                      *)
(***************************************************************************)
MaxRows == 2

MaxCols == 2

\* the page holds the table at RectA and, when with_text, the text block that
\* get_text reports for the same region
InitTable ==
    /\ pc = "input"
    /\ \E grid \in SeqsUpTo(SeqsUpTo({NoCell, <<"A">>, <<"a", "\n", "b">>}, MaxCols), MaxRows)
                      \cup {GridAB},
          with_text \in BOOLEAN :
          /\ args = [table_data |-> grid]
          /\ page = [EmptyPage EXCEPT
                        !.tables = <<[data |-> grid, bbox |-> RectA,
                                      has_bbox |-> TRUE, raises |-> FALSE]>>,
                        !.blocks = IF with_text
                                   THEN <<[type |-> 0, bbox |-> RectA,
                                           lines |-> <<LinePlain>>]>>
                                   ELSE <<>>]
    /\ elements = <<>>
    /\ result = NoResult
    /\ raised = "none"
    /\ files = NoFiles

\* _process_page on the page of the table
ProcessTablePage ==
    /\ pc = "input"
    /\ \E r \in {_process_page(page, 0, "None", files)} :
          /\ elements' = r.elements
          /\ result' = r.markdown
          /\ files' = r.files
    /\ pc' = "done"
    /\ UNCHANGED <<page, args, raised>>

SpecTable == InitTable /\ [][ProcessTablePage]_vars

\* the lines of s, which "\n" separates
RECURSIVE LinesOf(_, _)
LinesOf(s, line) ==
    IF s = <<>> THEN <<line>>
    ELSE IF s[1] = "\n" THEN <<line>> \o LinesOf(Tail(s), <<>>)
    ELSE LinesOf(Tail(s), Append(line, s[1]))

\* how many "|" the line holds
PipeCount(line) == Cardinality({k \in 1..Len(line) : line[k] = "|"})

\* the row "| c1 | ... | cW |" of the cells of row, empty cells after its last
RowLine(row, W) ==
    <<"|">>
        \o Join(<<"|">>,
                [k \in 1..W |->
                    <<" ">> \o (IF k <= Len(row) THEN _clean_cell(row[k]) ELSE <<>>)
                           \o <<" ">>])
        \o <<"|">>

HasHeader(grid) == grid # <<>> /\ grid[1] # <<>>

\* C13: a grid with at least one row and a non-empty first row is rendered as
\* the header row, one separator row of "---" per column, then the other
\* rows in grid order, every row of as many cells as the widest row of the
\* grid (shorter rows padded with empty cells); the page of the grid
\* [[A,B],[1,2]] renders "| A | B |", "| --- | --- |", "| 1 | 2 |", and the
\* page of a rendered table has no text Element.
C13_TableRendering ==
    (Done /\ HasHeader(args.table_data)) =>
        LET grid == args.table_data
            W == CHOOSE w \in {Len(grid[r]) : r \in 1..Len(grid)} :
                     \A r \in 1..Len(grid) : Len(grid[r]) <= w
            lines == LinesOf(elements[1].content, <<>>)
        IN  /\ Len(elements) = 1
            /\ elements[1].kind = "table"
            /\ Len(lines) = Len(grid) + 1
            /\ lines[1] = RowLine(grid[1], W)
            /\ lines[2] = <<"|">> \o Join(<<"|">>, [k \in 1..W |-> <<" ", "-", "-", "-", " ">>])
                              \o <<"|">>
            /\ \A r \in 2..Len(grid) : lines[r + 1] = RowLine(grid[r], W)
            /\ \A n \in 1..Len(lines) : PipeCount(lines[n]) = W + 1
            /\ grid = GridAB =>
                  lines = << <<"|", " ", "A", " ", "|", " ", "B", " ", "|">>,
                             <<"|", " ", "-", "-", "-", " ", "|", " ", "-", "-", "-", " ", "|">>,
                             <<"|", " ", "1", " ", "|", " ", "2", " ", "|">> >>

\* a grid whose second row is wider than its header has been rendered, on a
\* page that holds the text of the table as well
C13_Witness ==
    /\ Done
    /\ Len(args.table_data) = 2
    /\ Len(args.table_data[1]) = 1 /\ Len(args.table_data[2]) = 2
    /\ page.blocks # <<>>
    /\ Len(elements) = 1 /\ elements[1].kind = "table"

(***************************************************************************)
(* One text line through the classifiers (SpecLine)                        *)
(***************************************************************************)
MaxSpans == 2

\* the spans of a line of a text block and the average font size of its page
InitLine ==
    /\ pc = "input"
    /\ page = EmptyPage
    /\ args \in
          {[spans |-> sp, avg_font_size |-> [num |-> a, den |-> 1]]
              : sp \in SeqsUpTo({Span(t, f, z)
                                    : t \in {<<"H", "i">>, <<" ">>, <<"1", ")", " ", "a">>, UrlX},
                                      f \in {0, FLAG_BOLD}, z \in {10, 24}},
                                MaxSpans),
                a \in {10, 20}}
    /\ elements = <<>>
    /\ result = NoResult
    /\ raised = "none"
    /\ files = NoFiles

\* one pass of the loop `for line in block.get("lines", [])`: elements gets the
\* Element of the line, if any; result records what format_line returned,
\* the heading prefix and the classifiers called, in the order of the calls
ProcessTextLine ==
    /\ pc = "input"
    /\ \E fl \in {format_line(args.spans)} :
       \E heading_prefix \in {detect_heading(fl.max_size, args.avg_font_size, fl.bold)} :
          /\ elements' = LineElement([spans |-> args.spans], args.avg_font_size, 0, 1, 1)
          /\ result' =
                [fl |-> fl,
                 heading_prefix |-> heading_prefix,
                 calls |->
                     IF args.spans = <<>> THEN <<>>
                     ELSE IF Strip(fl.text) = <<>> THEN <<"format_line">>
                     ELSE <<"format_line", "detect_heading">>
                              \o (IF heading_prefix = NoPrefix
                                  THEN <<"process_line">> ELSE <<>>)
                              \o <<"replace_urls_in_text">>]
    /\ pc' = "done"
    /\ UNCHANGED <<page, args, raised, files>>

SpecLine == InitLine /\ [][ProcessTextLine]_vars

CallsOf(name) == {k \in 1..Len(result.calls) : result.calls[k] = name}

\* C14: per emitted text line the classifiers run in the order Span Formatter,
\* Heading Classifier, List Normalizer, bare-URL Linker; a line that got a
\* heading prefix is never passed to the List Normalizer, a line without one
\* always is, and the Linker is applied exactly once to every emitted line.
C14_ClassifierOrder ==
    (Done /\ elements # <<>>) =>
        LET text == result.fl.text
            heading == result.heading_prefix # NoPrefix
        IN  /\ result.calls[1] = "format_line"
            /\ result.calls[2] = "detect_heading"
            /\ result.calls[Len(result.calls)] = "replace_urls_in_text"
            /\ Cardinality(CallsOf("replace_urls_in_text")) = 1
            /\ heading => CallsOf("process_line") = {}
            /\ ~heading => CallsOf("process_line") = {3}
            /\ Len(result.calls) = IF heading THEN 3 ELSE 4
            /\ elements[1].content =
                  IF heading THEN result.heading_prefix \o replace_urls_in_text(text)
                  ELSE replace_urls_in_text(process_line(text))

\* a heading line whose text looks like a numbered item and holds a URL
C14_Witness ==
    /\ Done
    /\ elements # <<>>
    /\ result.heading_prefix = H1
    /\ result.fl.text = <<"1", ")", " ", "a", " ">> \o UrlX
    /\ elements[1].content = H1 \o <<"1", ")", " ", "a", " ", "[">> \o UrlX
                                 \o <<"]", "(">> \o UrlX \o <<")">>

\* spans without its k-th run
WithoutRun(spans, k) == [n \in 1..(Len(spans) - 1) |-> IF n < k THEN spans[n] ELSE spans[n + 1]]

\* C16: a run whose text is empty once its trailing whitespace is stripped
\* contributes nothing to the line: format_line returns the same text, the
\* same maximum run size and the same boldness as for the line without it.
C16_EmptyRunContributesNothing ==
    Done =>
        \A k \in 1..Len(args.spans) :
            RStrip(args.spans[k].text) = <<>>
                => result.fl = format_line(WithoutRun(args.spans, k))

(***************************************************************************)
(* A page that holds annotations only (SpecAnnot)                          *)
(***************************************************************************)
MaxAnnots == 1

InitAnnot ==
    /\ pc = "input"
    /\ \E annots \in
             SeqsUpTo([subtype : {"Text", "FreeText", "Highlight", "Underline",
                                  "StrikeOut", "Stamp", "Square", "Ink"},
                       content : {<<>>, <<" ">>, <<" ", "n", " ">>},
                       textbox : {<<>>, <<"t", " ">>},
                       textbox_raises : BOOLEAN,
                       rect : {RectA, RectB},
                       raises : BOOLEAN],
                      MaxAnnots) :
          page = [EmptyPage EXCEPT !.annots = annots]
    /\ args = NoArgs
    /\ elements = <<>>
    /\ result = NoResult
    /\ raised = "none"
    /\ files = NoFiles

\* _process_page on the page of the annotations
ProcessAnnotPage ==
    /\ pc = "input"
    /\ \E r \in {_process_page(page, 0, "None", files)} :
          /\ elements' = r.elements
          /\ result' = r.markdown
          /\ files' = r.files
    /\ pc' = "done"
    /\ UNCHANGED <<page, args, raised>>

SpecAnnot == InitAnnot /\ [][ProcessAnnotPage]_vars

\* the content of annotation a: its own comment, else for a highlight the
\* page text under its rectangle, surrounding whitespace taken off
ContentOf(a) ==
    IF Strip(a.content) # <<>> THEN Strip(a.content)
    ELSE IF a.subtype = "Highlight" /\ ~a.textbox_raises THEN Strip(a.textbox)
    ELSE <<>>

Relevant(a) ==
    a.subtype \in {"Text", "FreeText", "Highlight", "Underline", "StrikeOut", "Stamp"}

ElementsOf(ai) == {k \in 1..Len(elements) : elements[k].src[1] = ai}

\* C15: an annotation of sub-type note, free-text, highlight, underline,
\* strikeout or stamp has for content its own comment when non-empty, else
\* (highlight only) the page text under its rectangle; with no content after
\* that, or of any other sub-type, it produces no Element; every other
\* annotation that can be read produces exactly one blockquote line
\* "> label: content" at the top edge of the annotation.
C15_AnnotationElements ==
    Done =>
        \A ai \in 1..Len(page.annots) :
            LET a == page.annots[ai]
            IN  IF a.raises \/ ~Relevant(a) \/ ContentOf(a) = <<>>
                THEN ElementsOf(ai) = {}
                ELSE /\ Cardinality(ElementsOf(ai)) = 1
                     /\ \A k \in ElementsOf(ai) :
                           /\ elements[k].kind = "annotation"
                           /\ elements[k].y = a.rect.y0
                           /\ elements[k].content =
                                 <<">", " ", TypeLabel(a.subtype), ":", " ">> \o ContentOf(a)

\* a highlight without a comment has been emitted with the text under it
C15_Witness ==
    /\ Done
    /\ Len(page.annots) = 1
    /\ page.annots[1].subtype = "Highlight"
    /\ Strip(page.annots[1].content) = <<>>
    /\ Len(elements) = 1
    /\ elements[1].content = <<">", " ", "Highlight", ":", " ", "t">>

(***************************************************************************)
(* The image files of one document, pages interleaved (SpecImages)         *)
(***************************************************************************)
MaxWrites == 2

\* page numbers and image indices of one and two digits
PageNumSamples == {0, 1, 9, 10, 11}

ImgIndexSamples == {0, 1, 2, 10, 11, 12}

InitImages ==
    /\ pc = "input"
    /\ page = EmptyPage
    /\ args = [images_dir |-> "images"]
    /\ elements = <<>>
    /\ result = {}
    /\ raised = "none"
    /\ files = NoFiles

\* the write of extract_all for image img_index of page page_num (the images of a
\* page are written in the order of their index; the pages in any order); result
\* is the set of images written so far
WriteImage ==
    /\ pc = "input"
    /\ Cardinality(result) < MaxWrites
    /\ \E page_num \in PageNumSamples, img_index \in ImgIndexSamples, alpha \in BOOLEAN :
          LET img == [xref |-> <<page_num, img_index>>, alpha |-> alpha]
          IN  /\ \A w \in result : w.page_num = page_num => w.img_index < img_index
              /\ files' = WriteFile(files,
                             PathJoin(args.images_dir,
                                      ImageFileName(page_num, img_index, ExtOf(img))),
                             ImageBytes(img))
              /\ result' = result \cup
                    {[page_num |-> page_num, img_index |-> img_index, img |-> img]}
    /\ UNCHANGED <<pc, page, args, elements, raised>>

NextImages == WriteImage

SpecImages == InitImages /\ [][NextImages]_vars

WrittenPath(w) ==
    PathJoin(args.images_dir, ImageFileName(w.page_num, w.img_index, ExtOf(w.img)))

\* C9: two images of different (page number, image index) have different file
\* names, so whatever the interleaving of the pages every image written is
\* still in its file: none was overwritten by another image of the document.
C9_NoImageOverwritten ==
    /\ \A w \in result :
          WrittenPath(w) \in DOMAIN files /\ files[WrittenPath(w)] = ImageBytes(w.img)
    /\ \A v, w \in result :
          <<v.page_num, v.img_index>> # <<w.page_num, w.img_index>>
              => WrittenPath(v) # WrittenPath(w)

\* page 1's image 11 and page 11's image 1 are both written, of the same format
C9_Witness ==
    \E v, w \in result :
        /\ v.page_num = 0 /\ v.img_index = 11
        /\ w.page_num = 10 /\ w.img_index = 1
        /\ v.img.alpha = w.img.alpha

(***************************************************************************)
(* main.py: the sessions of /api/convert and /api/download under the       *)
(* upload directory (SpecSession).  An entry of the upload directory is   *)
(* <<session, kind, name>>: the processing directory ("dir"), its images   *)
(* directory ("images"), the uploaded PDF ("upload"), document.md ("md"),  *)
(* an extracted image ("image", with its file name) and the ZIP beside the *)
(* processing directory ("zip").  The handlers are coroutines without an   *)
(* await, so a request runs from its first line to its return in one step. *)
(***************************************************************************)
MaxRequests == 3

InitSession ==
    /\ pc = "serving"
    /\ page = EmptyPage
    /\ args = [requests |-> 0, background |-> {}]
    /\ elements = <<>>
    /\ result = "none"
    /\ raised = "none"
    /\ files = NoFiles

\* POST /api/convert: the request is the suffix of the file name, the PDF that
\* is uploaded, the password, and what fails in the environment (fault):
\* copying the upload, or fitz.open on the saved file
Convert ==
    /\ args.requests < MaxRequests
    /\ \E suffix \in {".pdf", ".PDF", ".txt", ""}, password \in {"", "good", "bad"},
          fault \in {"none", "save", "open"},
          doc \in {d \in DocSamples :
                      /\ d.toc = <<>> /\ d.embfiles = <<>> /\ d.metadata.title = <<>>
                      /\ d.pages \in {<<>>, <<PageOfImages>>}
                      /\ d.needs_pass => d.is_encrypted} :
       \E session_id \in {args.requests + 1} :
       \E made \in {WriteFile(WriteFile(WriteFile(files,
                        <<session_id, "dir", <<>> >>, <<"dir">>),
                        <<session_id, "images", <<>> >>, <<"dir">>),
                        <<session_id, "upload", <<>> >>, <<"pdf">>)},
          removed \in {[k \in {q \in DOMAIN files : q[1] # session_id} |-> files[k]]},
          r \in {pdf_to_markdown([is_file |-> TRUE, doc |-> doc],
                                 IF password = "" THEN "None" ELSE password,
                                 "images", NoFiles)} :
          /\ args' = [args EXCEPT !.requests = session_id]
          /\ IF suffix \notin {".pdf", ".PDF"}
             THEN result' = "rejected" /\ files' = files
             ELSE IF fault # "none"
             THEN result' = "failed" /\ files' = removed
             ELSE IF r.raised = "PermissionError"
             THEN result' = "denied" /\ files' = removed
             ELSE /\ result' = "ok"
                  /\ files' =
                        [k \in ((DOMAIN made) \ {<<session_id, "upload", <<>> >>})
                                  \cup {<<session_id, "image", q[2]>> : q \in DOMAIN r.files}
                            |-> IF k \in DOMAIN made THEN made[k]
                                ELSE r.files[<<"images", k[3]>>]]
    /\ UNCHANGED <<pc, page, elements, raised>>

\* POST /api/download: as convert, then document.md and the ZIP beside the
\* processing directory; fault is also writing document.md, opening the ZIP
\* for writing, or adding a member to the ZIP once it is open
Download ==
    /\ args.requests < MaxRequests
    /\ \E suffix \in {".pdf", ".PDF", ".txt", ""}, password \in {"", "good", "bad"},
          fault \in {"none", "save", "open", "md_write", "zip_open", "zip_write"},
          doc \in {d \in DocSamples :
                      /\ d.toc = <<>> /\ d.embfiles = <<>> /\ d.metadata.title = <<>>
                      /\ d.pages \in {<<>>, <<PageOfImages>>}
                      /\ d.needs_pass => d.is_encrypted} :
       \E session_id \in {args.requests + 1} :
       \E made \in {WriteFile(WriteFile(WriteFile(files,
                        <<session_id, "dir", <<>> >>, <<"dir">>),
                        <<session_id, "images", <<>> >>, <<"dir">>),
                        <<session_id, "md", <<>> >>, <<"md">>)},
          removed \in {[k \in {q \in DOMAIN files : q[1] # session_id} |-> files[k]]},
          r \in {pdf_to_markdown([is_file |-> TRUE, doc |-> doc],
                                 IF password = "" THEN "None" ELSE password,
                                 "images", NoFiles)} :
          IF suffix \notin {".pdf", ".PDF"}
          THEN /\ result' = "rejected" /\ files' = files
               /\ args' = [args EXCEPT !.requests = session_id]
          ELSE IF fault \in {"save", "open"}
          THEN /\ result' = "failed" /\ files' = removed
               /\ args' = [args EXCEPT !.requests = session_id]
          ELSE IF r.raised = "PermissionError"
          THEN /\ result' = "denied" /\ files' = removed
               /\ args' = [args EXCEPT !.requests = session_id]
          ELSE IF fault \in {"md_write", "zip_open"}
          THEN /\ result' = "failed" /\ files' = removed
               /\ args' = [args EXCEPT !.requests = session_id]
          ELSE IF fault = "zip_write"
          THEN /\ result' = "failed"
               /\ files' = WriteFile(removed, <<session_id, "zip", <<>> >>, <<"zip">>)
               /\ args' = [args EXCEPT !.requests = session_id]
          ELSE /\ result' = "ok"
               /\ files' =
                     [k \in (DOMAIN made) \cup {<<session_id, "zip", <<>> >>}
                               \cup {<<session_id, "image", q[2]>> : q \in DOMAIN r.files}
                         |-> IF k \in DOMAIN made THEN made[k]
                             ELSE IF k[2] = "zip" THEN <<"zip">>
                             ELSE r.files[<<"images", k[3]>>]]
               /\ args' = [requests |-> session_id,
                           background |-> args.background \cup {session_id}]
    /\ UNCHANGED <<pc, page, elements, raised>>

\* the BackgroundTask of a download that was answered: cleanup()
BackgroundCleanup ==
    /\ \E session_id \in args.background :
          /\ files' = [k \in {q \in DOMAIN files : q[1] # session_id} |-> files[k]]
          /\ args' = [args EXCEPT !.background = @ \ {session_id}]
    /\ UNCHANGED <<pc, page, elements, result, raised>>

SpecSession == InitSession /\ [][Convert \/ Download \/ BackgroundCleanup]_vars

\* C18: after a /api/convert or /api/download request that ends in failure
\* (access denied, or any other exception after the session directory was
\* made) no file or directory made for that session is left under the
\* upload directory, and a request rejected for its extension makes none.
C18_FailedSessionLeavesNothing ==
    (args.requests > 0 /\ result \in {"rejected", "denied", "failed"}) =>
        \A k \in DOMAIN files : k[1] # args.requests

====
